---- MODULE Spec2Model ----
(***************************************************************************)
(* A model of src/clustering.py: the route collectors, the graph reducer,  *)
(* the cluster grouper, the subcluster refiner and the leaving-group       *)
(* collapser.  Each function of the file is an operator computed the way   *)
(* the code computes it; one action per call applies it to inputs drawn    *)
(* from bounded sets.                                                      *)
(***************************************************************************)
EXTENDS Integers, Sequences, FiniteSets, TLC

VARIABLES
    sb_cgrs,        \* cluster_routes: the input mapping, in insertion order
    use_strat,      \* cluster_routes: the grouping mode
    clusters,       \* cluster_routes: whether it was called, and its result
    reordered,      \* the same mapping in another insertion order
    clusters2,      \* cluster_routes on `reordered`
    groups,         \* subcluster_all_clusters: the input mapping
    sc_pos,         \* subcluster_all_clusters: iterations of the loop done
    all_subgroups,  \* subcluster_all_clusters: the local accumulator
    sc_ret,         \* subcluster_all_clusters: what the call returned
    route_cgr,      \* reduce_route_cgr_to_main_component: its argument
    reduced_cgr,    \* reduce_route_cgr_to_main_component: its result
    source,         \* the collectors: the mapping or tree passed in
    request,        \* the collectors: the function called and its route_id
    outcome,        \* the collectors: what the call returned or raised
    subgroup,       \* post_process_subgroup: the subgroup dict, mutated in place
    pp_orig,        \* the subgroup as the Subcluster Refiner created it
    pp_fail,        \* the step of post_process_subgroup that raises on this subgroup
    pp_calls,       \* calls of post_process_subgroup made so far
    pp_outcome      \* how the last call ended

cluster_vars == <<sb_cgrs, use_strat, clusters, reordered, clusters2>>
subcluster_vars == <<groups, sc_pos, all_subgroups, sc_ret>>
reduce_vars == <<route_cgr, reduced_cgr>>
collect_vars == <<source, request, outcome>>
post_vars == <<subgroup, pp_orig, pp_fail, pp_calls, pp_outcome>>

vars == <<cluster_vars, subcluster_vars, reduce_vars, collect_vars, post_vars>>

(***************************************************************************)
(* Bounds.                                                                 *)
(***************************************************************************)
MaxRoutes == 3
MaxGroups == 3
MaxNodes == 5
MaxRouteId == 2
MaxRoutesData == 3
MaxPoints == 2
MaxCalls == 3

None == "None"

(***************************************************************************)
(* Generic helpers: Python's ordering of ints, strings and tuples, dicts   *)
(* kept as sequences of entries in insertion order.                        *)
(***************************************************************************)
Range(s) == {s[i] : i \in 1..Len(s)}

RemoveAt(s, i) == [j \in 1..(Len(s) - 1) |-> IF j < i THEN s[j] ELSE s[j + 1]]

\* Python's < on two values of one kind: ints, strings (sequences of
\* character codes), bonds (pairs of atom numbers) and tuples of bonds.
\* Sequences compare lexicographically; a proper prefix is smaller.
RECURSIVE Less(_, _, _)
SeqLess(kind, s, t) ==
    \E i \in 1..(Len(s) + 1) :
        /\ \A j \in 1..(i - 1) : j <= Len(t) /\ s[j] = t[j]
        /\ \/ i = Len(s) + 1 /\ Len(t) >= i
           \/ i <= Len(s) /\ i <= Len(t) /\ Less(kind, s[i], t[i])

Less(kind, a, b) ==
    CASE kind = "int" -> a < b
      [] kind = "str" -> SeqLess("int", a, b)
      [] kind = "bond" -> SeqLess("int", a, b)
      [] kind = "bonds" -> SeqLess("bond", a, b)

IntLess(a, b) == Less("int", a, b)
StrLess(s, t) == Less("str", s, t)
BondsLess(s, t) == Less("bonds", s, t)

\* The sort key (len(item[0]), item[0]) of the groups.
SortKeyLess(a, b, strat) ==
    \/ Len(a.key) < Len(b.key)
    \/ /\ Len(a.key) = Len(b.key)
       /\ IF strat = TRUE THEN BondsLess(a.key, b.key) ELSE StrLess(a.key, b.key)

\* The order a sort goes by: route ids, or groups by their sort key.
Before(order, a, b) ==
    CASE order = "route_ids" -> IntLess(a, b)
      [] order = "groups by bonds" -> SortKeyLess(a, b, TRUE)
      [] order = "groups by signature" -> SortKeyLess(a, b, FALSE)

\* list.sort() / sorted(): stable, by repeatedly taking the first minimum.
RECURSIVE SortBy(_, _)
SortBy(order, s) ==
    IF s = <<>> THEN <<>>
    ELSE LET i == CHOOSE k \in 1..Len(s) :
                     /\ \A j \in 1..Len(s) : ~Before(order, s[j], s[k])
                     /\ \A j \in 1..(k - 1) : Before(order, s[k], s[j])
         IN  <<s[i]>> \o SortBy(order, RemoveAt(s, i))

RECURSIVE Perms(_)
Perms(S) ==
    IF S = {} THEN {<<>>}
    ELSE UNION {{<<x>> \o p : p \in Perms(S \ {x})} : x \in S}

(***************************************************************************)
(* cluster_routes                                                          *)
(***************************************************************************)
\* The SB-CGRs a route may carry.  sig is str(sb_cgr), a string given as its
\* character codes; bonds is extract_strat_bonds(sb_cgr), a sorted list of
\* atom pairs.  The signature is canonical: graphs with one signature are
\* isomorphic and have the same number of strategic bonds, though their atom
\* numbering, and so the bond list, may differ.
Graphs == {
    [sig |-> <<2>>,    bonds |-> << <<1, 2>> >>],
    [sig |-> <<1, 1>>, bonds |-> << <<1, 2>> >>],
    [sig |-> <<1, 1>>, bonds |-> << <<2, 3>> >>],
    [sig |-> <<3>>,    bonds |-> << <<1, 2>>, <<3, 4>> >>] }

RouteIds == 1..MaxRoutes

extract_strat_bonds(sb_cgr) == sb_cgr.bonds

str(sb_cgr) == sb_cgr.sig

group_key(sb_cgr, strat) ==
    IF strat = TRUE THEN extract_strat_bonds(sb_cgr) ELSE str(sb_cgr)

HasKey(d, k) == \E i \in 1..Len(d) : d[i].key = k

IndexOf(d, k) == CHOOSE i \in 1..Len(d) : d[i].key = k

\* temp_groups[group_key]: the defaultdict inserts a fresh entry on a miss.
Touch(temp_groups, k) ==
    IF HasKey(temp_groups, k) THEN temp_groups
    ELSE Append(temp_groups,
                [key |-> k, route_ids |-> <<>>, sb_cgr |-> None,
                 strat_bonds |-> None])

SetRepresentative(g, sb_cgr) ==
    IF g.route_ids = <<>>
    THEN [g EXCEPT !.sb_cgr = sb_cgr, !.strat_bonds = extract_strat_bonds(sb_cgr)]
    ELSE g

\* The append without the sort that follows it.
AddRoute_NoSort(g, route_id) ==
    [g EXCEPT !.route_ids = Append(g.route_ids, route_id)]

\* An assignment in place of the append.
AddRoute_Overwrite(g, route_id) ==
    [g EXCEPT !.route_ids = <<route_id>>]

\* Lines 130-133: append the route id and sort the list

AddRoute(g, route_id) ==
    [g EXCEPT !.route_ids = SortBy("route_ids", Append(g.route_ids, route_id))]

\* One iteration of the grouping loop.
GroupOne(temp_groups, item, strat) ==
    LET k == group_key(item.sb_cgr, strat)
        tg == Touch(temp_groups, k)
        i == IndexOf(tg, k)
    IN  [tg EXCEPT ![i] = AddRoute(SetRepresentative(tg[i], item.sb_cgr),
                                   item.route_id)]

RECURSIVE GroupAll(_, _, _)
GroupAll(temp_groups, items, strat) ==
    IF items = <<>> THEN temp_groups
    ELSE GroupAll(GroupOne(temp_groups, Head(items), strat), Tail(items), strat)

SetGroupSizes(temp_groups) ==
    [i \in 1..Len(temp_groups) |->
        [key |-> temp_groups[i].key,
         route_ids |-> temp_groups[i].route_ids,
         sb_cgr |-> temp_groups[i].sb_cgr,
         strat_bonds |-> temp_groups[i].strat_bonds,
         group_size |-> Len(temp_groups[i].route_ids)]]

\* sorted(temp_groups.items(), key=lambda item: (len(item[0]), item[0]))
SortedGroups(temp_groups, strat) ==
    SortBy(IF strat = TRUE THEN "groups by bonds" ELSE "groups by signature",
           temp_groups)

\* final_grouped_results[final_key] = group_data
DictSet(d, k, v) ==
    IF \E i \in 1..Len(d) : d[i].id = k
    THEN [i \in 1..Len(d) |-> IF d[i].id = k THEN [id |-> k, data |-> v] ELSE d[i]]
    ELSE Append(d, [id |-> k, data |-> v])

\* The value stored under a key of temp_groups.
GroupData(g) ==
    [route_ids |-> g.route_ids, sb_cgr |-> g.sb_cgr,
     strat_bonds |-> g.strat_bonds, group_size |-> g.group_size]

\* f"{num_bonds}.{index}": the two decimal numbers around the dot.
FinalKey(num_bonds, index) == <<num_bonds, index>>

\* group_indices, a defaultdict(int): the count so far for a bond number.
Count(group_indices, n) ==
    IF n \in DOMAIN group_indices THEN group_indices[n] ELSE 0

RECURSIVE AssignIds(_, _, _)
AssignIds(sorted_groups, group_indices, final) ==
    IF sorted_groups = <<>> THEN final
    ELSE LET group_data == Head(sorted_groups)
             num_bonds == Len(group_data.strat_bonds)
             idx == Count(group_indices, num_bonds) + 1
             gi == [n \in DOMAIN group_indices \cup {num_bonds} |->
                        IF n = num_bonds THEN idx ELSE group_indices[n]]
         IN  AssignIds(Tail(sorted_groups), gi,
                       DictSet(final, FinalKey(num_bonds, idx), GroupData(group_data)))

cluster_routes(items, strat) ==
    AssignIds(SortedGroups(SetGroupSizes(GroupAll(<<>>, items, strat)), strat),
              <<>>, <<>>)

\* The mappings route id -> graph over at most MaxRoutes routes, in every
\* insertion order.
Mappings ==
    UNION {UNION {{[i \in 1..Len(p) |-> [route_id |-> p[i], sb_cgr |-> f[p[i]]]] :
                      f \in [S -> Graphs]} : p \in Perms(S)} : S \in SUBSET RouteIds}

Reorderings(items) ==
    {[i \in 1..Len(items) |-> items[p[i]]] : p \in Perms(1..Len(items))}


NotClustered == [called |-> FALSE, dict |-> <<>>]

Clustered(d) == [called |-> TRUE, dict |-> d]

\* cluster_routes(sb_cgrs, use_strat)
CallClusterRoutes ==
    /\ ~clusters.called
    /\ clusters' = Clustered(cluster_routes(sb_cgrs, use_strat))
    /\ UNCHANGED <<sb_cgrs, use_strat, reordered, clusters2>>
    /\ UNCHANGED <<subcluster_vars, reduce_vars, collect_vars, post_vars>>

\* cluster_routes on a mapping holding the same pairs in another insertion order
CallClusterRoutesReordered ==
    /\ ~clusters2.called
    /\ \E r \in Reorderings(sb_cgrs) :
        /\ reordered' = r
        /\ clusters2' = Clustered(cluster_routes(r, use_strat))
    /\ UNCHANGED <<sb_cgrs, use_strat, clusters>>
    /\ UNCHANGED <<subcluster_vars, reduce_vars, collect_vars, post_vars>>

NextCluster == CallClusterRoutes \/ CallClusterRoutesReordered

(***************************************************************************)
(* subcluster_all_clusters                                                 *)
(***************************************************************************)
ClusterIds == 1..MaxGroups

\* What subcluster_one_cluster yields for a cluster: synthon data, or None.
SynthonData == {None, "synthons_a", "synthons_b"}

subcluster_one_cluster(group) == group.synthons

group_routes_by_synthon_detail(group_synthons) == [by_detail |-> group_synthons]

\* The mappings cluster id -> cluster over at most MaxGroups clusters, in every
\* insertion order.
GroupMappings ==
    UNION {UNION {{[i \in 1..Len(p) |-> [group_index |-> p[i], synthons |-> f[p[i]]]] :
                      f \in [S -> SynthonData]} : p \in Perms(S)} : S \in SUBSET ClusterIds}

Running == [kind |-> "running", dict |-> <<>>]

ReturnNone == [kind |-> "None", dict |-> <<>>]

ReturnDict(d) == [kind |-> "dict", dict |-> d]

\* all_subgroups[group_index] = value
PutSubgroups(d, k, v) ==
    IF \E i \in 1..Len(d) : d[i].group_index = k
    THEN [i \in 1..Len(d) |->
            IF d[i].group_index = k THEN [group_index |-> k, subgroups |-> v] ELSE d[i]]
    ELSE Append(d, [group_index |-> k, subgroups |-> v])

\* The body of the loop for one cluster whose synthon data is missing,
\* continuing with the next cluster instead of returning.
SubclusterOne_Skip(acc, group) ==
    LET group_synthons == subcluster_one_cluster(group)
    IN  IF group_synthons = None
        THEN [ret |-> Running, acc |-> acc]
        ELSE [ret |-> Running,
              acc |-> PutSubgroups(acc, group.group_index,
                                   group_routes_by_synthon_detail(group_synthons))]

\* The body of the loop for one cluster: the value returned, if it returns,
\* and the accumulator after it.
SubclusterOne(acc, group) ==
    LET group_synthons == subcluster_one_cluster(group)
    IN  IF group_synthons = None
        THEN [ret |-> ReturnNone, acc |-> acc]
        ELSE [ret |-> Running,
              acc |-> PutSubgroups(acc, group.group_index,
                                   group_routes_by_synthon_detail(group_synthons))]

\* One iteration of `for group_index, group in groups.items()`
SubclusterIterate ==
    /\ sc_ret = Running
    /\ sc_pos < Len(groups)
    /\ LET r == SubclusterOne(all_subgroups, groups[sc_pos + 1])
       IN  /\ sc_ret' = r.ret
           /\ all_subgroups' = r.acc
    /\ sc_pos' = sc_pos + 1
    /\ UNCHANGED groups
    /\ UNCHANGED <<cluster_vars, reduce_vars, collect_vars, post_vars>>

\* `return all_subgroups` after the loop
SubclusterReturn ==
    /\ sc_ret = Running
    /\ sc_pos = Len(groups)
    /\ sc_ret' = ReturnDict(all_subgroups)
    /\ UNCHANGED <<groups, sc_pos, all_subgroups>>
    /\ UNCHANGED <<cluster_vars, reduce_vars, collect_vars, post_vars>>

NextSubcluster == SubclusterIterate \/ SubclusterReturn

(***************************************************************************)
(* reduce_route_cgr_to_main_component                                      *)
(***************************************************************************)
\* Optional values: Nothing is Python's None, Some(x) a value.
Nothing == <<>>

Some(x) == <<x>>

RECURSIVE OrderedPartitions(_)
OrderedPartitions(S) ==
    IF S = {} THEN {<<>>}
    ELSE UNION {{<<B>> \o p : p \in OrderedPartitions(S \ B)} :
                    B \in (SUBSET S) \ {{}}}

\* A CGR: its atoms and its connected_components attribute, a sequence of
\* atom sets that partitions the atoms (has_cc is FALSE when the object has
\* no such attribute).
CGRsOver(S) ==
    {[nodes |-> S, has_cc |-> TRUE, connected_components |-> p] :
        p \in OrderedPartitions(S)}
    \cup {[nodes |-> S, has_cc |-> FALSE, connected_components |-> <<>>]}

RouteCGRs == UNION {CGRsOver(1..n) : n \in 0..MaxNodes}

\* getattr(route_cgr, "connected_components", None)
GetComponents(cgr) ==
    IF cgr.has_cc THEN Some(cgr.connected_components) ELSE Nothing

\* `not components`: None, or an empty collection
Falsy(components) == components = Nothing \/ components[1] = <<>>

\* A max that keeps the last of several maximal components.
MaxByLen_Last(components) ==
    components[CHOOSE i \in 1..Len(components) :
        /\ \A j \in 1..Len(components) :
              Cardinality(components[j]) <= Cardinality(components[i])
        /\ \A j \in (i + 1)..Len(components) :
              Cardinality(components[j]) < Cardinality(components[i])]

\* max(components, key=len): the first of the maximal components
MaxByLen(components) ==
    components[CHOOSE i \in 1..Len(components) :
        /\ \A j \in 1..Len(components) :
              Cardinality(components[j]) <= Cardinality(components[i])
        /\ \A j \in 1..(i - 1) :
              Cardinality(components[j]) < Cardinality(components[i])]

\* route_cgr.substructure(atoms): the induced substructure
substructure(cgr, atoms) ==
    LET Meets(c) == c \cap atoms # {}
        kept == SelectSeq(cgr.connected_components, Meets)
    IN  [nodes |-> cgr.nodes \cap atoms,
         has_cc |-> cgr.has_cc,
         connected_components |-> [i \in 1..Len(kept) |-> kept[i] \cap atoms]]

reduce_route_cgr_to_main_component(cgr) ==
    LET components == GetComponents(cgr)
    IN  IF Falsy(components) THEN cgr
        ELSE substructure(cgr, MaxByLen(components[1]))

NoCGR == [nodes |-> {}, has_cc |-> FALSE, connected_components |-> <<>>]

NotReduced == [called |-> FALSE, cgr |-> NoCGR]

\* reduce_route_cgr_to_main_component(route_cgr)
CallReduce ==
    /\ ~reduced_cgr.called
    /\ reduced_cgr' = [called |-> TRUE,
                       cgr |-> reduce_route_cgr_to_main_component(route_cgr)]
    /\ UNCHANGED route_cgr
    /\ UNCHANGED <<cluster_vars, subcluster_vars, collect_vars, post_vars>>

NextReduce == CallReduce

(***************************************************************************)
(* compose_all_route_cgrs and compose_all_reduced_route_cgrs               *)
(***************************************************************************)
\* Route ids are ints or strings; ids of different types do not compare.
\* The nodes of a tree are numbered.
IntIds == {[t |-> "int", v |-> n] : n \in 1..MaxRouteId}

StrIds == {[t |-> "str", v |-> 1]}

Ids == IntIds \cup StrIds

Comparable(ids) == \A a \in ids, b \in ids : a.t = b.t

IdLess(a, b) == a.v < b.v

\* The CGRs a route may have in a collector's source.
CollectCGRs == {
    [nodes |-> {1, 2, 3}, has_cc |-> TRUE, connected_components |-> <<{1}, {2, 3}>>],
    [nodes |-> {1}, has_cc |-> TRUE, connected_components |-> <<{1}>>] }

Values == {Nothing} \cup {Some(g) : g \in CollectCGRs}

\* A mapping source: its entries in insertion order.  An entry's value is
\* what the mapping gives for the id: the CGR stored under it (None when
\* missing) for compose_all_reduced_route_cgrs, the CGR compose_route_cgr
\* builds from the steps stored under it (None when it builds nothing) for
\* compose_all_route_cgrs.
DictSources ==
    UNION {UNION {{[shape |-> "dict",
                    entries |-> [i \in 1..Len(p) |->
                                    [route_id |-> p[i], value |-> f[p[i]]]],
                    winning_nodes |-> <<>>,
                    build |-> [n \in {} |-> Nothing]] :
                      f \in [S -> Values]} : p \in Perms(S)} : S \in SUBSET Ids}

\* A tree source: tree.winning_nodes, and what compose_route_cgr builds for
\* each node.
TreeSources ==
    {[shape |-> "tree", entries |-> <<>>, winning_nodes |-> w, build |-> b] :
        w \in UNION {[1..n -> IntIds] : n \in 0..MaxRouteId},
        b \in [IntIds -> Values]}

Sources == DictSources \cup TreeSources

Keys(entries) == {entries[i].route_id : i \in 1..Len(entries)}

\* mapping.get(rid)
Get(entries, rid) ==
    IF rid \in Keys(entries)
    THEN entries[CHOOSE i \in 1..Len(entries) : entries[i].route_id = rid].value
    ELSE Nothing

\* compose_route_cgr(source, route_id): res["cgr"] when res is truthy
compose_route_cgr(src, rid) ==
    IF src.shape = "dict" THEN Get(src.entries, rid)
    ELSE IF rid \in DOMAIN src.build THEN src.build[rid] ELSE Nothing

Raised(e) == [kind |-> e, dict |-> <<>>]

ReturnedNone == [kind |-> "None", dict |-> <<>>]

Returned(d) == [kind |-> "dict", dict |-> d]

Pending == [kind |-> "pending", dict |-> <<>>]

Entry(rid, value) == [route_id |-> rid, value |-> value]

\* sorted(ids) of mutually comparable ids
Sorted(ids) == CHOOSE s \in Perms(ids) :
                  \A i \in 1..Len(s), j \in 1..Len(s) : i < j => IdLess(s[i], s[j])

KeySeq(entries) == [i \in 1..Len(entries) |-> entries[i].route_id]

\* The single-route request on a mapping without the membership test.
DictSingle_NoCheck(src, rid) ==
    Returned(<<Entry(rid, compose_route_cgr(src, rid))>>)

\* Lines 40-43: the single-route request on a mapping.
DictSingle(src, rid) ==
    IF rid \notin Keys(src.entries) THEN Raised("KeyError")
    ELSE Returned(<<Entry(rid, compose_route_cgr(src, rid))>>)

\* Lines 46-47: all routes of a mapping.
DictAll(src) ==
    IF ~Comparable(Keys(src.entries)) THEN Raised("TypeError")
    ELSE LET ids == Sorted(Keys(src.entries))
         IN  Returned([i \in 1..Len(ids) |->
                          Entry(ids[i], compose_route_cgr(src, ids[i]))])

\* Lines 53-59: the single-route request on a tree.
TreeSingle(src, rid) ==
    LET res == compose_route_cgr(src, rid)
    IN  IF res # Nothing THEN Returned(<<Entry(rid, res)>>) ELSE ReturnedNone

\* Lines 61-66: all winning nodes of a tree.
TreeAll(src) ==
    LET ids == Sorted(Range(src.winning_nodes))
        Built(rid) == compose_route_cgr(src, rid) # Nothing
        kept == SelectSeq(ids, Built)
    IN  Returned([i \in 1..Len(kept) |->
                     Entry(kept[i], compose_route_cgr(src, kept[i]))])

\* route_id is Nothing for None.
compose_all_route_cgrs(src, route_id) ==
    IF src.shape = "dict"
    THEN IF route_id # Nothing THEN DictSingle(src, route_id[1]) ELSE DictAll(src)
    ELSE IF route_id # Nothing THEN TreeSingle(src, route_id[1]) ELSE TreeAll(src)

\* Lines 278-286: the mapping route id -> CGR the function works on.
ResolveRouteCgrs(src) ==
    IF src.shape = "dict" THEN src.entries
    ELSE compose_all_route_cgrs(src, Nothing).dict

\* _reduce_single(rid)
ReduceSingle(route_cgrs, rid) ==
    LET cgr == Get(route_cgrs, rid)
    IN  IF cgr = Nothing THEN Nothing
        ELSE Some(reduce_route_cgr_to_main_component(cgr[1]))

\* Lines 306-309: sorted(route_cgrs), or the keys as they come
RouteIdOrder(route_cgrs) ==
    IF Comparable(Keys(route_cgrs)) THEN Sorted(Keys(route_cgrs))
    ELSE KeySeq(route_cgrs)

compose_all_reduced_route_cgrs(src, route_id) ==
    LET route_cgrs == ResolveRouteCgrs(src)
    IN  IF route_id # Nothing
        THEN IF route_id[1] \notin Keys(route_cgrs) THEN Raised("KeyError")
             ELSE LET reduced == ReduceSingle(route_cgrs, route_id[1])
                  IN  IF reduced # Nothing
                      THEN Returned(<<Entry(route_id[1], reduced)>>)
                      ELSE Returned(<<>>)
        ELSE LET route_ids == RouteIdOrder(route_cgrs)
                 Reduces(rid) == ReduceSingle(route_cgrs, rid) # Nothing
                 kept == SelectSeq(route_ids, Reduces)
             IN  Returned([i \in 1..Len(kept) |->
                              Entry(kept[i], ReduceSingle(route_cgrs, kept[i]))])

NoSource == [shape |-> "dict", entries |-> <<>>, winning_nodes |-> <<>>,
             build |-> [n \in {} |-> Nothing]]

NoRequest == [fn |-> "none", route_id |-> Nothing]

\* The ids a caller may ask a source for.
RequestIds(src) == IF src.shape = "dict" THEN Ids ELSE IntIds

\* compose_all_route_cgrs(source, route_id)
CallComposeAll ==
    /\ request = NoRequest
    /\ \E rid \in {Nothing} \cup {Some(i) : i \in RequestIds(source)} :
        /\ request' = [fn |-> "compose_all_route_cgrs", route_id |-> rid]
        /\ outcome' = compose_all_route_cgrs(source, rid)
    /\ UNCHANGED source
    /\ UNCHANGED <<cluster_vars, subcluster_vars, reduce_vars, post_vars>>

\* compose_all_reduced_route_cgrs(source, route_id)
CallComposeAllReduced ==
    /\ request = NoRequest
    /\ \E rid \in {Nothing} \cup {Some(i) : i \in RequestIds(source)} :
        /\ request' = [fn |-> "compose_all_reduced_route_cgrs", route_id |-> rid]
        /\ outcome' = compose_all_reduced_route_cgrs(source, rid)
    /\ UNCHANGED source
    /\ UNCHANGED <<cluster_vars, subcluster_vars, reduce_vars, post_vars>>

NextCollect == CallComposeAll \/ CallComposeAllReduced

(***************************************************************************)
(* post_process_subgroup                                                   *)
(***************************************************************************)
LGs == {"lg_a", "lg_b"}

\* The steps of the function that can raise, in the order of the code.
Steps == {"all_lg_collect", "replace_leaving_groups_in_synthon", "rebuild",
          "remove_and_shift", "group_by_identical_values"}

\* A subgroup as created: routes_data gives each route its leaving group at
\* each attachment point of the synthon.
RawSubgroups ==
    UNION {{[routes_data |-> rd,
             synthon_cgr |-> [points |-> 1..np],
             post_processed |-> pp,
             synthon_reaction |-> Nothing,
             group_lgs |-> Nothing] :
                rd \in [1..nr -> [1..np -> LGs]], pp \in {"absent", "False"}} :
           nr \in 1..MaxRoutesData, np \in 0..MaxPoints}

\* The attachment-point indices of a route table.
Indices(routes_data) == UNION {DOMAIN routes_data[r] : r \in DOMAIN routes_data}

\* all_lg_collect(subgroup): per index, the distinct leaving groups seen
all_lg_collect(sg) ==
    [ind \in Indices(sg.routes_data) |->
        {sg.routes_data[r][ind] : r \in {q \in DOMAIN sg.routes_data :
                                            ind \in DOMAIN sg.routes_data[q]}}]

\* A test that also takes the indices where the routes differ.
ToRemove_Any(result) == {ind \in DOMAIN result : Cardinality(result[ind]) >= 1}

\* Line 185: the indices whose set has one member
ToRemove(result) == {ind \in DOMAIN result : Cardinality(result[ind]) = 1}

\* replace_leaving_groups_in_synthon and the rebuilding of the reaction
\* (lines 186-198): the synthon without the removed attachment points.
RebuildReaction(sg, to_remove) ==
    [points |-> sg.synthon_cgr.points \ to_remove]

\* remove_and_shift(routes_data, to_remove): drop the removed indices and
\* shift the later ones down
remove_and_shift(routes_data, to_remove) ==
    [r \in DOMAIN routes_data |->
        LET kept == DOMAIN routes_data[r] \ to_remove
            Shift(k) == k - Cardinality({x \in to_remove : x < k})
        IN  [n \in {Shift(k) : k \in kept} |->
                routes_data[r][CHOOSE k \in kept : Shift(k) = n]]]

\* group_by_identical_values(routes_data): the routes under each value
group_by_identical_values(routes_data) ==
    {[value |-> v, routes |-> {r \in DOMAIN routes_data : routes_data[r] = v}] :
        v \in {routes_data[r] : r \in DOMAIN routes_data}}

\* A guard that never holds.
AlreadyProcessed_Never(sg) == sg.post_processed = "Done"

\* Line 181: the guard of the early return
AlreadyProcessed(sg) == sg.post_processed = "True"

Result(sg, how) == [subgroup |-> sg, outcome |-> how]

\* The function with the flag set before the work is done.
post_process_subgroup_FlagFirst(sg, fail) ==
    IF AlreadyProcessed(sg) THEN Result(sg, "returned")
    ELSE LET s0 == [sg EXCEPT !.post_processed = "True"]
             to_remove == ToRemove(all_lg_collect(sg))
             s3 == [s0 EXCEPT !.synthon_reaction = Some(RebuildReaction(sg, to_remove)),
                              !.routes_data = remove_and_shift(sg.routes_data, to_remove)]
             s4 == [s3 EXCEPT !.group_lgs = Some(group_by_identical_values(s3.routes_data))]
         IN  IF fail \in Steps THEN Result(s0, "raised") ELSE Result(s4, "returned")

\* post_process_subgroup(subgroup) on a subgroup whose step `fail` raises
\* ("none": no step does): the subgroup after the call, and how it ended.
post_process_subgroup(sg, fail) ==
    IF AlreadyProcessed(sg) THEN Result(sg, "returned")
    ELSE LET to_remove == ToRemove(all_lg_collect(sg))
             s1 == [sg EXCEPT !.synthon_reaction = Some(RebuildReaction(sg, to_remove))]
             s2 == [s1 EXCEPT !.routes_data = remove_and_shift(s1.routes_data, to_remove)]
             s3 == [s2 EXCEPT !.post_processed = "True"]
             s4 == [s3 EXCEPT !.group_lgs = Some(group_by_identical_values(s3.routes_data))]
         IN  IF fail \in {"all_lg_collect", "replace_leaving_groups_in_synthon", "rebuild"}
             THEN Result(sg, "raised")
             ELSE IF fail = "remove_and_shift" THEN Result(s1, "raised")
             ELSE IF fail = "group_by_identical_values" THEN Result(s3, "raised")
             ELSE Result(s4, "returned")

NoSubgroup ==
    [routes_data |-> <<>>, synthon_cgr |-> [points |-> {}],
     post_processed |-> "absent", synthon_reaction |-> Nothing,
     group_lgs |-> Nothing]

\* post_process_subgroup(subgroup)
CallPostProcess ==
    /\ pp_calls < MaxCalls
    /\ LET r == post_process_subgroup(subgroup, pp_fail)
       IN  /\ subgroup' = r.subgroup
           /\ pp_outcome' = r.outcome
    /\ pp_calls' = pp_calls + 1
    /\ UNCHANGED <<pp_orig, pp_fail>>
    /\ UNCHANGED <<cluster_vars, subcluster_vars, reduce_vars, collect_vars>>

NextPost == CallPostProcess

(***************************************************************************)
(* Specifications, one per function under study.                           *)
(***************************************************************************)
\* Cluster_routes is about to be called on a mapping; the other functions are not in use.
InitCluster ==
    /\ sb_cgrs \in Mappings
    /\ use_strat \in BOOLEAN
    /\ clusters = NotClustered
    /\ reordered = sb_cgrs
    /\ clusters2 = NotClustered
    /\ groups = <<>>
    /\ sc_pos = 0
    /\ all_subgroups = <<>>
    /\ sc_ret = Running
    /\ route_cgr = NoCGR
    /\ reduced_cgr = NotReduced
    /\ source = NoSource
    /\ request = NoRequest
    /\ outcome = Pending
    /\ subgroup = NoSubgroup
    /\ pp_orig = NoSubgroup
    /\ pp_fail = "none"
    /\ pp_calls = 0
    /\ pp_outcome = "none"

SpecCluster == InitCluster /\ [][NextCluster]_vars

\* Subcluster_all_clusters has been entered on a mapping of clusters; the other functions are not in use.
InitSubcluster ==
    /\ sb_cgrs = <<>>
    /\ use_strat = FALSE
    /\ clusters = NotClustered
    /\ reordered = <<>>
    /\ clusters2 = NotClustered
    /\ groups \in GroupMappings
    /\ sc_pos = 0
    /\ all_subgroups = <<>>
    /\ sc_ret = Running
    /\ route_cgr = NoCGR
    /\ reduced_cgr = NotReduced
    /\ source = NoSource
    /\ request = NoRequest
    /\ outcome = Pending
    /\ subgroup = NoSubgroup
    /\ pp_orig = NoSubgroup
    /\ pp_fail = "none"
    /\ pp_calls = 0
    /\ pp_outcome = "none"

SpecSubcluster == InitSubcluster /\ [][NextSubcluster]_vars

\* Reduce_route_cgr_to_main_component is about to be called on a CGR; the other functions are not in use.
InitReduce ==
    /\ sb_cgrs = <<>>
    /\ use_strat = FALSE
    /\ clusters = NotClustered
    /\ reordered = <<>>
    /\ clusters2 = NotClustered
    /\ groups = <<>>
    /\ sc_pos = 0
    /\ all_subgroups = <<>>
    /\ sc_ret = Running
    /\ route_cgr \in RouteCGRs
    /\ reduced_cgr = NotReduced
    /\ source = NoSource
    /\ request = NoRequest
    /\ outcome = Pending
    /\ subgroup = NoSubgroup
    /\ pp_orig = NoSubgroup
    /\ pp_fail = "none"
    /\ pp_calls = 0
    /\ pp_outcome = "none"

SpecReduce == InitReduce /\ [][NextReduce]_vars

\* A collector is about to be called on a source; the other functions are not in use.
InitCollect ==
    /\ sb_cgrs = <<>>
    /\ use_strat = FALSE
    /\ clusters = NotClustered
    /\ reordered = <<>>
    /\ clusters2 = NotClustered
    /\ groups = <<>>
    /\ sc_pos = 0
    /\ all_subgroups = <<>>
    /\ sc_ret = Running
    /\ route_cgr = NoCGR
    /\ reduced_cgr = NotReduced
    /\ source \in Sources
    /\ request = NoRequest
    /\ outcome = Pending
    /\ subgroup = NoSubgroup
    /\ pp_orig = NoSubgroup
    /\ pp_fail = "none"
    /\ pp_calls = 0
    /\ pp_outcome = "none"

SpecCollect == InitCollect /\ [][NextCollect]_vars

\* A subgroup as the Subcluster Refiner created it; the other functions are not in use.
InitPost ==
    /\ sb_cgrs = <<>>
    /\ use_strat = FALSE
    /\ clusters = NotClustered
    /\ reordered = <<>>
    /\ clusters2 = NotClustered
    /\ groups = <<>>
    /\ sc_pos = 0
    /\ all_subgroups = <<>>
    /\ sc_ret = Running
    /\ route_cgr = NoCGR
    /\ reduced_cgr = NotReduced
    /\ source = NoSource
    /\ request = NoRequest
    /\ outcome = Pending
    /\ subgroup \in RawSubgroups
    /\ pp_orig = subgroup
    /\ pp_fail \in Steps \cup {"none"}
    /\ pp_calls = 0
    /\ pp_outcome = "none"

SpecPost == InitPost /\ [][NextPost]_vars

(***************************************************************************)
(* Properties of cluster_routes.                                           *)
(***************************************************************************)
AllRouteIds(d) == UNION {Range(d[c].data.route_ids) : c \in 1..Len(d)}

Occurrences(d, r) ==
    Cardinality({p \in UNION {{<<c, j>> : j \in 1..Len(d[c].data.route_ids)} :
                                 c \in 1..Len(d)} :
                    d[p[1]].data.route_ids[p[2]] = r})

InputKeys(items) == {items[i].route_id : i \in 1..Len(items)}

Partitions(d, items) ==
    /\ AllRouteIds(d) \subseteq InputKeys(items)
    /\ \A r \in InputKeys(items) : Occurrences(d, r) = 1

\* C1: the clusters cluster_routes returns partition the routes: every key of
\* the input is in the route_ids of exactly one cluster, exactly once, and no
\* other route id appears, in both grouping modes.
C1_ClustersPartitionRoutes ==
    /\ clusters.called => Partitions(clusters.dict, sb_cgrs)
    /\ clusters2.called => Partitions(clusters2.dict, reordered)

\* A result with several clusters, one of them holding several routes.
C1_Witness ==
    /\ clusters.called
    /\ Len(clusters.dict) >= 2
    /\ \E c \in 1..Len(clusters.dict) : Len(clusters.dict[c].data.route_ids) >= 2

\* The content {cluster id: route_ids} of a result.
Content(d) == {<<d[c].id, d[c].data.route_ids>> : c \in 1..Len(d)}

\* C2: two mappings holding the same (route id, graph) pairs in different
\* insertion orders give, for the same use_strat, the same cluster ids, each
\* with the same list of route ids.
C2_SameContentInAnyOrder ==
    (clusters.called /\ clusters2.called) =>
        /\ Content(clusters.dict) = Content(clusters2.dict)
        /\ Cardinality({clusters.dict[c].id : c \in 1..Len(clusters.dict)})
              = Len(clusters.dict)
        /\ Cardinality({clusters2.dict[c].id : c \in 1..Len(clusters2.dict)})
              = Len(clusters2.dict)

\* Both calls made, on orders that differ in their first route, with several
\* clusters and a cluster of several routes.
C2_Witness ==
    /\ clusters.called /\ clusters2.called
    /\ Len(sb_cgrs) >= 2
    /\ reordered[1] # sb_cgrs[1]
    /\ Len(clusters.dict) >= 2
    /\ \E c \in 1..Len(clusters.dict) : Len(clusters.dict[c].data.route_ids) >= 2

\* The lexicographic order of two group keys of the mode in use.
KeyLess(a, b) == IF use_strat = TRUE THEN BondsLess(a, b) ELSE StrLess(a, b)

IdsByBondCountAndKey(d) ==
    /\ \A c \in 1..Len(d) : d[c].id[1] = Len(d[c].data.strat_bonds)
    /\ \A c \in 1..Len(d) :
          {d[e].id[2] : e \in {x \in 1..Len(d) : d[x].id[1] = d[c].id[1]}}
             = 1..Cardinality({x \in 1..Len(d) : d[x].id[1] = d[c].id[1]})
    /\ \A c \in 1..Len(d), e \in 1..Len(d) :
          (c # e /\ d[c].id[1] = d[e].id[1]) =>
              (d[c].id[2] < d[e].id[2]
                  <=> KeyLess(group_key(d[c].data.sb_cgr, use_strat),
                              group_key(d[e].data.sb_cgr, use_strat)))

\* C3: in both modes every cluster id is "<bondCount>.<index>" with bondCount
\* the number of strategic bonds of the group, the indices of one bondCount are
\* 1..k, and they follow the lexicographic order of the group keys.
C3_IdsFollowBondCountThenKey ==
    clusters.called => IdsByBondCountAndKey(clusters.dict)

(***************************************************************************)
(* Properties of subcluster_all_clusters.                                  *)
(***************************************************************************)
SomeClusterFails == \E i \in 1..Len(groups) : subcluster_one_cluster(groups[i]) = None

\* C4: once subcluster_all_clusters has returned, it has returned None if
\* subcluster_one_cluster yields None for any cluster of the input, whatever
\* its position, and otherwise a mapping with exactly the input's cluster ids
\* as keys, one subgroup mapping per id.
C4_AllOrNothing ==
    sc_ret.kind # "running" =>
        IF SomeClusterFails
        THEN sc_ret = ReturnNone
        ELSE /\ sc_ret.kind = "dict"
             /\ Len(sc_ret.dict) = Len(groups)
             /\ \A i \in 1..Len(groups) :
                   /\ sc_ret.dict[i].group_index = groups[i].group_index
                   /\ sc_ret.dict[i].subgroups
                         = group_routes_by_synthon_detail(groups[i].synthons)

\* None returned for a failure of the last of three clusters, after the two
\* before it were subclustered.
C4_Witness ==
    /\ sc_ret = ReturnNone
    /\ Len(groups) = 3
    /\ sc_pos = 3
    /\ Len(all_subgroups) = 2

(***************************************************************************)
(* Properties of reduce_route_cgr_to_main_component.                       *)
(***************************************************************************)
MaxSize(comps) ==
    CHOOSE n \in {Cardinality(comps[i]) : i \in 1..Len(comps)} :
        \A i \in 1..Len(comps) : Cardinality(comps[i]) <= n

\* C7: the result is the substructure on the first component of maximal node
\* count; a graph without components is returned unchanged.
C7_MainComponent ==
    reduced_cgr.called =>
        IF ~route_cgr.has_cc \/ route_cgr.connected_components = <<>>
        THEN reduced_cgr.cgr = route_cgr
        ELSE LET comps == route_cgr.connected_components
             IN  /\ Cardinality(reduced_cgr.cgr.nodes) = MaxSize(comps)
                 /\ \E i \in 1..Len(comps) :
                       /\ reduced_cgr.cgr.nodes = comps[i]
                       /\ \A j \in 1..(i - 1) :
                             Cardinality(comps[j]) < MaxSize(comps)

\* A graph with two components of the maximal size and a smaller one before
\* them.
C7_Witness ==
    /\ reduced_cgr.called
    /\ route_cgr.has_cc
    /\ Len(route_cgr.connected_components) = 3
    /\ Cardinality(route_cgr.connected_components[1]) = 1
    /\ Cardinality(route_cgr.connected_components[2]) = 2
    /\ Cardinality(route_cgr.connected_components[3]) = 2
    /\ reduced_cgr.cgr.nodes = route_cgr.connected_components[2]

(***************************************************************************)
(* Properties of the collectors.                                           *)
(***************************************************************************)
Called == request.fn # "none"

SingleRoute == Called /\ request.route_id # Nothing

AllRoutes == Called /\ request.route_id = Nothing

\* Whether the requested id can be resolved in the source: a key of the
\* mapping the function works on; for compose_all_route_cgrs on a tree, a
\* node a graph is built for.
Resolvable(src, fn, rid) ==
    IF fn = "compose_all_reduced_route_cgrs" THEN rid \in Keys(ResolveRouteCgrs(src))
    ELSE IF src.shape = "dict" THEN rid \in Keys(src.entries)
    ELSE compose_route_cgr(src, rid) # Nothing

OneEntryFor(out, rid) ==
    /\ out.kind = "dict"
    /\ Len(out.dict) = 1
    /\ out.dict[1].route_id = rid

Obtained(src, fn) ==
    LET m == IF fn = "compose_all_reduced_route_cgrs" \/ src.shape = "dict"
             THEN ResolveRouteCgrs(src)
             ELSE [i \in 1..Len(src.winning_nodes) |->
                      Entry(src.winning_nodes[i], src.build[src.winning_nodes[i]])]
        Has(rid) == Get(m, rid) # Nothing
        order == IF Comparable(Keys(m)) THEN Sorted(Keys(m)) ELSE KeySeq(m)
    IN  SelectSeq(order, Has)

\* C9: with route_id=None both collectors skip, without raising, every route
\* whose graph is missing: the mapping returned has exactly the ids a graph was
\* obtained for, none mapped to None, in ascending order (insertion order when
\* the ids do not compare).
C9_AllRoutesSkipMissing ==
    AllRoutes =>
        /\ outcome.kind = "dict"
        /\ KeySeq(outcome.dict) = Obtained(source, request.fn)
        /\ \A i \in 1..Len(outcome.dict) : outcome.dict[i].value # Nothing

(***************************************************************************)
(* Properties of post_process_subgroup.                                    *)
(***************************************************************************)
\* C5: a call on a subgroup that was already passed to post_process_subgroup
\* changes none of its fields; a call on a processed subgroup returns it
\* unchanged; post_processed never leaves True.
C5_OnlyFirstCallChanges ==
    [][/\ pp_calls >= 1 => subgroup' = subgroup
       /\ subgroup.post_processed = "True" =>
             /\ subgroup' = subgroup
             /\ subgroup'.post_processed = "True"
             /\ pp_outcome' = "returned"]_vars

\* A processed subgroup, changed by its first call, after a later call.
C5_Witness ==
    /\ pp_calls >= 2
    /\ subgroup.post_processed = "True"
    /\ pp_outcome = "returned"
    /\ subgroup.routes_data # pp_orig.routes_data
    /\ subgroup.group_lgs # Nothing

\* The attachment points whose leaving group is the same on every route of
\* the subgroup as created.
Constant(ind) ==
    Cardinality({pp_orig.routes_data[r][ind] : r \in DOMAIN pp_orig.routes_data}) = 1

Retained == {ind \in Indices(pp_orig.routes_data) : ~Constant(ind)}

SameResidual(r1, r2) ==
    \A ind \in Retained : pp_orig.routes_data[r1][ind] = pp_orig.routes_data[r2][ind]

\* C6: after a call in which no step raised, an attachment point is gone from
\* the synthon and from every route's routes_data entry, later points shifted
\* down, if and only if one leaving group was collected for it; group_lgs
\* partitions the routes by their leaving groups at the retained points.
C6_RemovesExactlyConstantPoints ==
    (pp_fail = "none" /\ pp_outcome = "returned") =>
        /\ subgroup.synthon_reaction # Nothing
        /\ \A ind \in Indices(pp_orig.routes_data) :
              ind \in subgroup.synthon_reaction[1].points <=> ~Constant(ind)
        /\ \A r \in DOMAIN pp_orig.routes_data :
              /\ DOMAIN subgroup.routes_data[r] = 1..Cardinality(Retained)
              /\ \A ind \in Retained :
                    subgroup.routes_data[r][Cardinality({x \in Retained : x <= ind})]
                       = pp_orig.routes_data[r][ind]
        /\ subgroup.group_lgs # Nothing
        /\ LET blocks == {g.routes : g \in subgroup.group_lgs[1]}
           IN  /\ UNION blocks = DOMAIN pp_orig.routes_data
               /\ {} \notin blocks
               /\ Cardinality(blocks) = Cardinality(subgroup.group_lgs[1])
               /\ \A r1 \in DOMAIN pp_orig.routes_data, r2 \in DOMAIN pp_orig.routes_data :
                     (\E b \in blocks : r1 \in b /\ r2 \in b) <=> SameResidual(r1, r2)

\* Three routes, the first point constant and removed, the second kept and
\* shifted down, two routes sharing their leaving group there.
C6_Witness ==
    /\ pp_fail = "none"
    /\ pp_calls = 1
    /\ pp_outcome = "returned"
    /\ DOMAIN pp_orig.routes_data = 1..3
    /\ Indices(pp_orig.routes_data) = {1, 2}
    /\ Constant(1)
    /\ Retained = {2}
    /\ subgroup.synthon_reaction = Some([points |-> {2}])
    /\ subgroup.group_lgs # Nothing
    /\ Cardinality(subgroup.group_lgs[1]) = 2

Stored(sg) ==
    /\ sg.synthon_reaction # Nothing
    /\ sg.routes_data = remove_and_shift(pp_orig.routes_data,
                                         {ind \in Indices(pp_orig.routes_data) :
                                             Constant(ind)})

\* C10 as stated: a call in which any step fails leaves the subgroup Raw, with
\* synthon_reaction and routes_data unchanged, and post_processed == True
\* implies synthon_reaction, the reindexed routes_data and group_lgs are stored.
C10_FailureLeavesRaw ==
    /\ pp_outcome = "raised" =>
          /\ subgroup.post_processed # "True"
          /\ subgroup.synthon_reaction = pp_orig.synthon_reaction
          /\ subgroup.routes_data = pp_orig.routes_data
    /\ subgroup.post_processed = "True" =>
          /\ Stored(subgroup)
          /\ subgroup.group_lgs # Nothing

\* C10 as amended: a failure while collecting the leaving groups, replacing
\* them in the synthon or rebuilding and laying out the reaction leaves the
\* subgroup exactly as it was; a failure while reindexing leaves it Raw with
\* routes_data unchanged; post_processed == True implies synthon_reaction and
\* the reindexed routes_data are stored, and group_lgs too unless computing it
\* failed.
C10_FailureBeforeFirstStoreLeavesRaw ==
    /\ pp_fail \in {"all_lg_collect", "replace_leaving_groups_in_synthon", "rebuild"}
          => subgroup = pp_orig
    /\ pp_fail = "remove_and_shift" =>
          /\ subgroup.post_processed # "True"
          /\ subgroup.routes_data = pp_orig.routes_data
    /\ subgroup.post_processed = "True" =>
          /\ Stored(subgroup)
          /\ subgroup.group_lgs = Nothing => pp_fail = "group_by_identical_values"

\* A call that raised while rebuilding the reaction of a subgroup with a
\* constant attachment point.
C10_Witness ==
    /\ pp_outcome = "raised"
    /\ pp_fail = "rebuild"
    /\ pp_calls >= 1
    /\ \E ind \in Indices(pp_orig.routes_data) : Constant(ind)
    /\ subgroup = pp_orig

====
